---- MODULE Spec2Model ----
(***************************************************************************)
(* A model of quacktokenscope's multi-tokenizer analysis engine: the       *)
(* tokenizer adapters (utils/tokenizers), the frequency analyzer           *)
(* (utils/frequency.py), the fidelity evaluator (utils/reverse_mapping.py), *)
(* the aggregator and adapter pool of TokenScopePlugin                     *)
(* (plugins/token_scope.py), the exporters (outputs/exporter.py) and the   *)
(* plugin host with its lock file (plugin.py).                             *)
(*                                                                         *)
(* Texts and token strings are sequences of code points.  A float score is *)
(* kept as the exact fraction <<numerator, denominator>>.  The third-party *)
(* tokenizer libraries are the environment: a loaded back-end is one of    *)
(* the Encodings below, a deterministic function of the text.  Logging is  *)
(* left out.                                                               *)
(***************************************************************************)
EXTENDS Integers, Sequences, FiniteSets, TLC

VARIABLES
    USE_LEVENSHTEIN,   \* reverse_mapping.USE_LEVENSHTEIN, fixed at import
    use_mock,          \* config value use_mock_tokenizers
    initialized,       \* TokenScopePlugin._initialized
    tokenizers,        \* TokenScopePlugin._tokenizers, in insertion order
    load_outcome,      \* what each back-end's initialize() did in initialize()
    analysis_result,   \* what the last _analyze_file call returned or raised
    result,            \* the IntegrationResult of the last plugin call
    request,           \* the file and the options of the last process_file
    written,           \* the files its export left in the output directory
    adapter,           \* a tokenizer object used directly
    ret,               \* what the last direct call on adapter, or of a
                       \* function, returned
    now,               \* time.time(), in seconds
    lock,              \* plugin._LOCK_FILE
    procs              \* the processes that use plugin.py: their
                       \* QuackTokenScopePlugin and the step they are at

vars == <<USE_LEVENSHTEIN, use_mock, initialized, tokenizers, load_outcome,
          analysis_result, result, request, written, adapter, ret,
          now, lock, procs>>

pluginVars == <<use_mock, initialized, tokenizers, load_outcome,
                analysis_result, result, request, written>>

adapterVars == <<adapter, ret>>

lockVars == <<now, lock, procs>>

----------------------------------------------------------------------------
(* Bounds of the model *)

\* longest text analysed
MaxLen == 3

\* code points of the texts: "a", "b", and U+0449, whose code point is 1097
Chars == {97, 98, 1097}

Texts == UNION {[1..n -> Chars] : n \in 0..MaxLen}

----------------------------------------------------------------------------
(* Sequences *)

Min(a, b) == IF a <= b THEN a ELSE b

Max(a, b) == IF a >= b THEN a ELSE b

Range(s) == {s[i] : i \in 1..Len(s)}

RECURSIVE SumSeq(_)
SumSeq(s) == IF s = <<>> THEN 0 ELSE s[1] + SumSeq(Tail(s))

RECURSIVE Flatten(_)
Flatten(ss) == IF ss = <<>> THEN <<>> ELSE ss[1] \o Flatten(Tail(ss))

----------------------------------------------------------------------------
(* Tokenizer back-ends loaded from the libraries *)

\* A loaded model: it cuts the (possibly case-folded) text into pieces of
\* `width` code points, and its encode raises on a text holding `special`.
Encodings ==
    { [width |-> 1, fold |-> FALSE, special |-> 0],
      [width |-> 1, fold |-> TRUE,  special |-> 0],
      [width |-> 2, fold |-> FALSE, special |-> 98] }

\* self._encoding = None / self._tokenizer = None
NoEncoding == [width |-> 0, fold |-> FALSE, special |-> 0]

Fold(enc, c) == IF enc.fold /\ c = 98 THEN 97 ELSE c

RECURSIVE PieceId(_)
PieceId(p) ==
    IF p = <<>> THEN 0 ELSE PieceId(SubSeq(p, 1, Len(p) - 1)) * 2000 + p[Len(p)]

RECURSIVE IdToPiece(_)
IdToPiece(id) ==
    IF id < 2000 THEN <<id>> ELSE Append(IdToPiece(id \div 2000), id % 2000)

\* a processor with no model loaded (width 0) raises on every call
LibRaises(enc, text) == enc.width = 0 \/ enc.special \in Range(text)

\* the k-th of the n pieces of `width` code points of the folded text
Piece(enc, text, k) ==
    PieceId([i \in 1..(Min(k * enc.width, Len(text)) - (k - 1) * enc.width) |->
                Fold(enc, text[(k - 1) * enc.width + i])])

LibEncode(enc, text) ==
    [k \in 1..((Len(text) + enc.width - 1) \div enc.width) |-> Piece(enc, text, k)]

LibDecode(enc, ids) == Flatten([k \in 1..Len(ids) |-> IdToPiece(ids[k])])

LibVocabSize(enc) == IF enc.width = 1 THEN 2000 ELSE 2000 * 2000

----------------------------------------------------------------------------
(* Tokenizer adapters: BaseTokenizer and its subclasses *)

TOKENIZER_REGISTRY == {"tiktoken", "huggingface", "mock"}

AdapterClasses == {"tiktoken", "huggingface", "sentencepiece", "mock"}

\* a SentencePieceProcessor that was created but whose load() raised
Unloaded == [width |-> 0, fold |-> TRUE, special |-> 0]

\* what loading the back-end resource can do: give a model, or raise
\* (NoEncoding)
Loads == Encodings \cup {NoEncoding}

\* BaseTokenizer.__init__ and the subclass __init__; get_logger is taken to
\* hand back a logger
New(cls) == [cls |-> cls, initialized |-> FALSE, encoding |-> NoEncoding]

\* an exception leaves the call; "NotInitialized" stands for
\* RuntimeError("Tokenizer not initialized"), "LibraryError" for an exception
\* of the tokenizer library
Raise(e) == [raised |-> e, ids |-> <<>>, strs |-> <<>>, text |-> <<>>, value |-> 0]

MockInitialize(a) ==
    [adapter |-> [a EXCEPT !.initialized = TRUE], value |-> TRUE]

TiktokenInitialize(a, load) ==
    IF load = NoEncoding
    THEN [adapter |-> a, value |-> FALSE]
    ELSE [adapter |-> [a EXCEPT !.encoding = load, !.initialized = TRUE],
          value |-> TRUE]

HuggingFaceInitialize(a, load) ==
    IF load = NoEncoding
    THEN [adapter |-> a, value |-> FALSE]
    ELSE [adapter |-> [a EXCEPT !.encoding = load, !.initialized = TRUE],
          value |-> TRUE]

\* T5Tokenizer first; else the direct processor, which is assigned before its
\* load() is tried (load = Unloaded: load() raised)
SentencePieceInitialize(a, load) ==
    IF load = NoEncoding
    THEN [adapter |-> a, value |-> FALSE]
    ELSE IF load = Unloaded
    THEN [adapter |-> [a EXCEPT !.encoding = Unloaded], value |-> FALSE]
    ELSE [adapter |-> [a EXCEPT !.encoding = load, !.initialized = TRUE],
          value |-> TRUE]

Initialize(a, load) ==
    CASE a.cls = "mock" -> MockInitialize(a)
      [] a.cls = "tiktoken" -> TiktokenInitialize(a, load)
      [] a.cls = "huggingface" -> HuggingFaceInitialize(a, load)
      [] a.cls = "sentencepiece" -> SentencePieceInitialize(a, load)

\* tokens = [text] in place of list(text)
MockTokenizeWhole(a, text) ==
    [raised |-> "none",
     ids |-> [i \in 1..Len(text) |-> text[i] % 1000],
     strs |-> IF text = <<>> THEN <<>> ELSE <<text>>]

MockTokenize(a, text) ==
    [raised |-> "none",
     ids |-> [i \in 1..Len(text) |-> text[i] % 1000],
     strs |-> [i \in 1..Len(text) |-> <<text[i]>>]]

\* the token strings of the ids: the one-id decodings (tiktoken) or
\* convert_ids_to_tokens (transformers)
Tokens(ids) ==
    [raised |-> "none",
     ids |-> ids,
     strs |-> [k \in 1..Len(ids) |-> IdToPiece(ids[k])]]

TiktokenTokenize(a, text) ==
    IF ~a.initialized THEN Raise("NotInitialized")
    ELSE IF LibRaises(a.encoding, text) THEN Raise("LibraryError")
    ELSE Tokens(LibEncode(a.encoding, text))

HuggingFaceTokenize(a, text) ==
    IF ~a.initialized THEN Raise("NotInitialized")
    ELSE IF LibRaises(a.encoding, text) THEN Raise("LibraryError")
    ELSE Tokens(LibEncode(a.encoding, text))

SentencePieceTokenize(a, text) ==
    IF ~a.initialized THEN Raise("NotInitialized")
    ELSE IF LibRaises(a.encoding, text) THEN Raise("LibraryError")
    ELSE Tokens(LibEncode(a.encoding, text))

Tokenize(a, text) ==
    CASE a.cls = "mock" -> MockTokenize(a, text)
      [] a.cls = "tiktoken" -> TiktokenTokenize(a, text)
      [] a.cls = "huggingface" -> HuggingFaceTokenize(a, text)
      [] a.cls = "sentencepiece" -> SentencePieceTokenize(a, text)

\* chr(tid % 64) in place of chr(tid % 128)
MockDecode64(a, ids) ==
    [raised |-> "none", text |-> [i \in 1..Len(ids) |-> ids[i] % 64]]

MockDecode(a, ids) ==
    [raised |-> "none", text |-> [i \in 1..Len(ids) |-> ids[i] % 128]]

\* decode of TiktokenTokenizer, HuggingFaceTokenizer and SentencePieceTokenizer
LibraryDecode(a, ids) ==
    IF ~a.initialized THEN Raise("NotInitialized")
    ELSE IF a.encoding.width = 0 THEN Raise("LibraryError")
    ELSE [raised |-> "none", text |-> LibDecode(a.encoding, ids)]

Decode(a, ids) ==
    IF a.cls = "mock" THEN MockDecode(a, ids) ELSE LibraryDecode(a, ids)

MockGetVocabSize(a) == [raised |-> "none", value |-> 256]

\* get_vocab_size of the three library tokenizers
LibraryGetVocabSize(a) ==
    IF ~a.initialized THEN Raise("NotInitialized")
    ELSE IF a.encoding.width = 0 THEN Raise("LibraryError")
    ELSE [raised |-> "none", value |-> LibVocabSize(a.encoding)]

GetVocabSize(a) ==
    IF a.cls = "mock" THEN MockGetVocabSize(a) ELSE LibraryGetVocabSize(a)

----------------------------------------------------------------------------
(* Python dicts, which keep their keys in insertion order: sequences of    *)
(* [key, value] entries with distinct keys                                 *)

Keys(d) == {d[i].key : i \in 1..Len(d)}

\* list(d.keys())
KeyList(d) == [i \in 1..Len(d) |-> d[i].key]

Get(d, k) == d[CHOOSE i \in 1..Len(d) : d[i].key = k].value

\* d[k] = v
DictSet(d, k, v) ==
    IF k \in Keys(d)
    THEN [i \in 1..Len(d) |-> IF d[i].key = k THEN [key |-> k, value |-> v] ELSE d[i]]
    ELSE Append(d, [key |-> k, value |-> v])

----------------------------------------------------------------------------
(* Frequency analyzer: utils/frequency.py *)

\* a presence flag in place of a count
Occurs(s, x) == IF \E i \in 1..Len(s) : s[i] = x THEN 1 ELSE 0

Count(s, x) == Cardinality({i \in 1..Len(s) : s[i] = x})

\* collections.Counter(s): a dict from the distinct elements of s, in the
\* order of their first occurrence, to their counts
RECURSIVE Counter(_)
Counter(s) ==
    IF s = <<>> THEN <<>>
    ELSE DictSet(Counter(SubSeq(s, 1, Len(s) - 1)), s[Len(s)], Count(s, s[Len(s)]))

\* str(n) of a non-negative int: its decimal digits
RECURSIVE Str(_)
Str(n) == IF n < 10 THEN <<48 + n>> ELSE Append(Str(n \div 10), 48 + (n % 10))

\* x put before the entries whose count equals its own: a sort that is not
\* stable
InsertBeforeEqual(rest, x) ==
    SubSeq(rest, 1, Cardinality({k \in 1..Len(rest) : rest[k].value > x.value}))
        \o <<x>>
        \o SubSeq(rest, Cardinality({k \in 1..Len(rest) : rest[k].value > x.value}) + 1,
                  Len(rest))

\* x put after the entries of the sorted `rest` whose count is at least its own
InsertByCount(rest, x) ==
    SubSeq(rest, 1, Cardinality({k \in 1..Len(rest) : rest[k].value >= x.value}))
        \o <<x>>
        \o SubSeq(rest, Cardinality({k \in 1..Len(rest) : rest[k].value >= x.value}) + 1,
                  Len(rest))

\* Counter.most_common(): sorted(items, key=count, reverse=True), a stable sort
RECURSIVE most_common(_)
most_common(items) ==
    IF items = <<>> THEN <<>>
    ELSE InsertByCount(most_common(SubSeq(items, 1, Len(items) - 1)), items[Len(items)])

\* the last of the largest, as sorted(items, key=count)[-1] gives
most_common_last(items) ==
    items[CHOOSE k \in 1..Len(items) :
             /\ \A j \in 1..Len(items) : items[j].value <= items[k].value
             /\ \A j \in (k + 1)..Len(items) : items[j].value < items[k].value]

\* Counter.most_common(1)[0]: max(items, key=count), the first of the largest
most_common_1(items) ==
    items[CHOOSE k \in 1..Len(items) :
             /\ \A j \in 1..Len(items) : items[j].value <= items[k].value
             /\ \A j \in 1..(k - 1) : items[j].value < items[k].value]

\* {str(token_id): count for token_id, count in id_counter.items()}
StrKeys(id_counter) ==
    [k \in 1..Len(id_counter) |->
        [key |-> Str(id_counter[k].key), value |-> id_counter[k].value]]

\* analyze_token_frequency after its tokenize call
Frequencies(tokenizer, id_counter, str_counter) ==
    [raised |-> "none",
     frequency |-> [tokenizer |-> tokenizer.cls,
                    frequencies |-> str_counter,
                    id_frequencies |-> StrKeys(id_counter)],
     most_common |-> IF str_counter # <<>>
                     THEN most_common_1(str_counter)
                     ELSE [key |-> <<>>, value |-> 0],
     rarest |-> IF str_counter # <<>>
                THEN most_common(str_counter)[Len(str_counter)]
                ELSE [key |-> <<>>, value |-> 0]]

CountTokens(tokenizer, tok) ==
    IF tok.raised # "none" THEN Raise(tok.raised)
    ELSE Frequencies(tokenizer, Counter(tok.ids), Counter(tok.strs))

analyze_token_frequency(tokenizer, text) ==
    CountTokens(tokenizer, Tokenize(tokenizer, text))

\* (count / total_tokens) * 100 if total_tokens > 0 else 0, as a fraction
Frequency(count, total_tokens) ==
    IF total_tokens > 0 THEN <<100 * count, total_tokens>> ELSE <<0, 1>>

\* the label of a frequency: < 0.1, < 1.0, else (the labels without their
\* emoji)
Rarity(frequency) ==
    IF 10 * frequency[1] < frequency[2] THEN "Legendary"
    ELSE IF frequency[1] < frequency[2] THEN "Rare"
    ELSE "Common"

\* "frequency <= 0.1" in place of "frequency < 0.1"
classify_legendary_inclusive(token, count, total_tokens) ==
    IF 10 * Frequency(count, total_tokens)[1] <= Frequency(count, total_tokens)[2]
    THEN "Legendary"
    ELSE Rarity(Frequency(count, total_tokens))

\* "frequency <= 1.0" in place of "frequency < 1.0"
classify_rare_inclusive(token, count, total_tokens) ==
    IF Rarity(Frequency(count, total_tokens)) = "Common"
       /\ Frequency(count, total_tokens)[1] = Frequency(count, total_tokens)[2]
    THEN "Rare"
    ELSE Rarity(Frequency(count, total_tokens))

classify_token_rarity(token, count, total_tokens) ==
    Rarity(Frequency(count, total_tokens))

----------------------------------------------------------------------------
(* Fidelity evaluator: utils/reverse_mapping.py *)

\* length of the longest common subsequence of a and b
RECURSIVE LCS(_, _)
LCS(a, b) ==
    IF a = <<>> \/ b = <<>> THEN 0
    ELSE IF a[1] = b[1] THEN 1 + LCS(Tail(a), Tail(b))
    ELSE Max(LCS(Tail(a), b), LCS(a, Tail(b)))

\* Levenshtein.ratio: (lensum - d) / lensum, d the edit distance in which a
\* substitution costs 2, that is lensum - 2 * LCS
LevenshteinRatio(a, b) ==
    IF Len(a) + Len(b) = 0 THEN <<1, 1>>
    ELSE <<2 * LCS(a, b), Len(a) + Len(b)>>

\* the characters of original met anywhere in reconstructed
MatchesAnywhere(original, reconstructed) ==
    Cardinality({i \in 1..Len(original) :
                    \E j \in 1..Len(reconstructed) : reconstructed[j] = original[i]})

\* sum(1 for a, b in zip(original, reconstructed) if a == b)
Matches(original, reconstructed) ==
    Cardinality({i \in 1..Min(Len(original), Len(reconstructed)) :
                    original[i] = reconstructed[i]})

\* the guard for an empty original with its two results exchanged
calculate_similarity_exchanged(original, reconstructed) ==
    IF original = <<>>
    THEN (IF reconstructed = <<>> THEN <<0, 1>> ELSE <<1, 1>>)
    ELSE IF USE_LEVENSHTEIN
    THEN LevenshteinRatio(original, reconstructed)
    ELSE <<Matches(original, reconstructed), Max(Len(original), Len(reconstructed))>>

calculate_similarity(original, reconstructed) ==
    IF original = <<>>
    THEN (IF reconstructed = <<>> THEN <<1, 1>> ELSE <<0, 1>>)
    ELSE IF USE_LEVENSHTEIN
    THEN LevenshteinRatio(original, reconstructed)
    ELSE IF Max(Len(original), Len(reconstructed)) = 0 THEN <<1, 1>>
    ELSE <<Matches(original, reconstructed), Max(Len(original), Len(reconstructed))>>

\* p < q for two scores
ScoreLess(p, q) == p[1] * q[2] < q[1] * p[2]

\* "similarity > 0.9" in place of "similarity >= 0.9"
ScoreStatusAbove(similarity) ==
    IF similarity[1] = similarity[2] THEN "Flawless"
    ELSE IF similarity[1] * 10 > 9 * similarity[2] THEN "Imperfect"
    ELSE "Botched"

\* the status of a similarity: == 1.0, >= 0.9, else
ScoreStatus(similarity) ==
    IF similarity[1] = similarity[2] THEN "Flawless"
    ELSE IF similarity[1] * 10 >= 9 * similarity[2] THEN "Imperfect"
    ELSE "Botched"

Reconstruction(reconstructed, similarity) ==
    [raised |-> "none",
     reconstructed |-> reconstructed,
     similarity |-> similarity,
     status |-> ScoreStatus(similarity)]

Compare(text, dec) ==
    IF dec.raised # "none" THEN Raise(dec.raised)
    ELSE Reconstruction(dec.text, calculate_similarity(text, dec.text))

Reconstruct(tokenizer, text, tok) ==
    IF tok.raised # "none" THEN Raise(tok.raised)
    ELSE Compare(text, Decode(tokenizer, tok.ids))

evaluate_reconstruction(tokenizer, text) ==
    Reconstruct(tokenizer, text, Tokenize(tokenizer, text))

----------------------------------------------------------------------------
(* Analysis aggregator: TokenScopePlugin._analyze_file *)

\* a row appended for every token, without the test "i >= len(token_tables)"
AppendRow(token_tables, i) ==
    Append(token_tables, [token_index |-> i, tokenizer_data |-> <<>>])

\* token_tables.append(TokenRow(token_index=i, tokenizer_data={})) when the
\* table has no row i yet
EnsureRow(token_tables, i) ==
    IF i >= Len(token_tables)
    THEN Append(token_tables, [token_index |-> i, tokenizer_data |-> <<>>])
    ELSE token_tables

\* token_tables[i].tokenizer_data[tokenizer_name] = {"id": ..., "str": ...}
SetRow(token_tables, i, tokenizer_name, id, str) ==
    [token_tables EXCEPT ![i + 1].tokenizer_data =
        DictSet(@, tokenizer_name, [id |-> id, str |-> str])]

\* the loop "for i in range(len(token_ids))" that stores one tokenizer's
\* tokens in the token table, from position i on
RECURSIVE StoreTokens(_, _, _, _, _)
StoreTokens(token_tables, tokenizer_name, token_ids, token_strs, i) ==
    IF i >= Len(token_ids) THEN token_tables
    ELSE StoreTokens(SetRow(EnsureRow(token_tables, i), i, tokenizer_name,
                            token_ids[i + 1], token_strs[i + 1]),
                     tokenizer_name, token_ids, token_strs, i + 1)

\* the TokenizerStats of one tokenizer
TokenizerStats(tokenizer_name, tok, rec, vocab) ==
    [name |-> tokenizer_name,
     total_tokens |-> Len(tok.ids),
     unique_tokens |-> Cardinality(Range(tok.ids)),
     vocab_size |-> vocab.value,
     avg_token_length |->
         IF tok.strs # <<>>
         THEN <<SumSeq([k \in 1..Len(tok.strs) |-> Len(tok.strs[k])]), Len(tok.strs)>>
         ELSE <<0, 1>>,
     reconstruction_score |-> rec.similarity,
     reconstruction_status |-> rec.status]

\* what one pass of the loop does with the results of its calls: the first
\* exception ends the pass, else every table gets the tokenizer's entry
StorePass(acc, tokenizer_name, tok, freq, rec, vocab) ==
    IF tok.raised # "none" THEN [acc EXCEPT !.raised = tok.raised, !.by = tokenizer_name]
    ELSE IF freq.raised # "none" THEN [acc EXCEPT !.raised = freq.raised, !.by = tokenizer_name]
    ELSE IF rec.raised # "none" THEN [acc EXCEPT !.raised = rec.raised, !.by = tokenizer_name]
    ELSE IF vocab.raised # "none" THEN [acc EXCEPT !.raised = vocab.raised, !.by = tokenizer_name]
    ELSE [raised |-> "none", by |-> "",
          total_tokens |-> DictSet(acc.total_tokens, tokenizer_name, Len(tok.ids)),
          max_index |-> Max(acc.max_index, Len(tok.ids)),
          frequencies |-> DictSet(acc.frequencies, tokenizer_name, freq.frequency),
          most_common_tokens |->
              DictSet(acc.most_common_tokens, tokenizer_name, freq.most_common),
          rarest_tokens |-> DictSet(acc.rarest_tokens, tokenizer_name, freq.rarest),
          tokenizer_stats |->
              DictSet(acc.tokenizer_stats, tokenizer_name,
                      TokenizerStats(tokenizer_name, tok, rec, vocab)),
          token_tables |->
              StoreTokens(acc.token_tables, tokenizer_name, tok.ids, tok.strs, 0)]

\* one pass of the loop "for tokenizer_name, tokenizer in tokenizers.items()"
AnalyzeOne(acc, tokenizer_name, tokenizer, content) ==
    StorePass(acc, tokenizer_name,
              Tokenize(tokenizer, content),
              analyze_token_frequency(tokenizer, content),
              evaluate_reconstruction(tokenizer, content),
              GetVocabSize(tokenizer))

\* the loop over the tokenizers; it ends at the first exception
RECURSIVE AnalyzeLoop(_, _, _)
AnalyzeLoop(acc, toks, content) ==
    IF toks = <<>> \/ acc.raised # "none" THEN acc
    ELSE AnalyzeLoop(AnalyzeOne(acc, toks[1].key, toks[1].value, content),
                     Tail(toks), content)

\* the last of the entries with the largest score
LastBestMatch(tokenizer_stats) ==
    tokenizer_stats[
        CHOOSE k \in 1..Len(tokenizer_stats) :
            /\ \A j \in 1..Len(tokenizer_stats) :
                   ~ScoreLess(tokenizer_stats[k].value.reconstruction_score,
                              tokenizer_stats[j].value.reconstruction_score)
            /\ \A j \in (k + 1)..Len(tokenizer_stats) :
                   ScoreLess(tokenizer_stats[j].value.reconstruction_score,
                             tokenizer_stats[k].value.reconstruction_score)].key

\* max(tokenizer_stats.items(), key=reconstruction_score)[0]: the first of
\* the entries with the largest score
BestMatch(tokenizer_stats) ==
    tokenizer_stats[
        CHOOSE k \in 1..Len(tokenizer_stats) :
            /\ \A j \in 1..Len(tokenizer_stats) :
                   ~ScoreLess(tokenizer_stats[k].value.reconstruction_score,
                              tokenizer_stats[j].value.reconstruction_score)
            /\ \A j \in 1..(k - 1) :
                   ScoreLess(tokenizer_stats[j].value.reconstruction_score,
                             tokenizer_stats[k].value.reconstruction_score)].key

\* no _analyze_file call has been made
NoAnalysis == [raised |-> "not called", by |-> "", content |-> <<>>, tokenizers |-> <<>>]

\* the tables of _analyze_file before its loop
NoTables ==
    [raised |-> "none", by |-> "",
     total_tokens |-> <<>>, token_tables |-> <<>>,
     tokenizer_stats |-> <<>>, frequencies |-> <<>>,
     most_common_tokens |-> <<>>, rarest_tokens |-> <<>>,
     max_index |-> 0]

\* tokenizers_used taken from the whole pool, list(self._tokenizers.keys())
AnalysisOfPool(content, toks, acc, best_match) ==
    [raised |-> "none", by |-> "", content |-> content, tokenizers |-> toks,
     analysis |-> [tokenizers_used |-> KeyList(tokenizers),
                   stats |-> acc.tokenizer_stats,
                   token_table |-> acc.token_tables,
                   best_match |-> best_match],
     frequencies |-> acc.frequencies,
     summary |-> [tokenizers_used |-> KeyList(tokenizers),
                  total_tokens |-> acc.total_tokens,
                  best_match |-> best_match,
                  most_common_token |-> acc.most_common_tokens,
                  rarest_token |-> acc.rarest_tokens]]

\* the TokenAnalysis and TokenSummary that _analyze_file builds and returns,
\* kept with the arguments of the call
AnalysisOf(content, toks, acc, best_match) ==
    [raised |-> "none", by |-> "", content |-> content, tokenizers |-> toks,
     analysis |-> [tokenizers_used |-> KeyList(toks),
                   stats |-> acc.tokenizer_stats,
                   token_table |-> acc.token_tables,
                   best_match |-> best_match],
     frequencies |-> acc.frequencies,
     summary |-> [tokenizers_used |-> KeyList(toks),
                  total_tokens |-> acc.total_tokens,
                  best_match |-> best_match,
                  most_common_token |-> acc.most_common_tokens,
                  rarest_token |-> acc.rarest_tokens]]

\* _analyze_file after its loop: an exception of the loop leaves the call, and
\* max() of no stats raises ValueError
Aggregate(content, toks, acc) ==
    IF acc.raised # "none"
    THEN [raised |-> acc.raised, by |-> acc.by, content |-> content,
          tokenizers |-> toks]
    ELSE IF acc.tokenizer_stats = <<>>
    THEN [raised |-> "ValueError", by |-> "max", content |-> content,
          tokenizers |-> toks]
    ELSE AnalysisOf(content, toks, acc, BestMatch(acc.tokenizer_stats))

analyze_file(content, toks) ==
    Aggregate(content, toks, AnalyzeLoop(NoTables, toks, content))

----------------------------------------------------------------------------
(* Exporters: outputs/exporter.py.  A written file is kept as the table or *)
(* the object it holds; the text of a cell (a float for an id in a column  *)
(* with empty cells, a quoted field) is not modelled.                      *)

\* the cell of a DataFrame that no row fills; a filled cell is <<value>>
NaN == <<>>

\* flat_row: token_index, then <tokenizer>_id and <tokenizer>_str for every
\* entry of the row's tokenizer_data
FlatRow(row) ==
    <<[key |-> <<"token_index", "">>, value |-> row.token_index]>>
        \o Flatten([k \in 1..Len(row.tokenizer_data) |->
              <<[key |-> <<row.tokenizer_data[k].key, "id">>,
                 value |-> row.tokenizer_data[k].value.id],
                [key |-> <<row.tokenizer_data[k].key, "str">>,
                 value |-> row.tokenizer_data[k].value.str]>>])

\* the flat rows built from the last TokenRow to the first
FlatRowsReversed(token_table) ==
    [k \in 1..Len(token_table) |-> FlatRow(token_table[Len(token_table) + 1 - k])]

\* the loop "for row in token_table" that builds the flat rows
FlatRows(token_table) == [k \in 1..Len(token_table) |-> FlatRow(token_table[k])]

\* the columns of pd.DataFrame(rows): the keys of the rows in the order of
\* their first appearance
Columns(rows) ==
    KeyList(Counter(Flatten([k \in 1..Len(rows) |-> KeyList(rows[k])])))

\* the rows of a DataFrame with these columns
Frame(rows, columns) ==
    [k \in 1..Len(rows) |->
        [c \in 1..Len(columns) |->
            [key |-> columns[c],
             value |-> IF columns[c] \in Keys(rows[k])
                       THEN <<Get(rows[k], columns[c])>>
                       ELSE NaN]]]

\* pd.DataFrame(rows) of a list of dicts: one row each, every row with all
\* the columns
DataFrame(rows) == Frame(rows, Columns(rows))

\* [{"token": k, "count": v} for k, v in frequencies.items()]
FrequencyRows(frequencies) ==
    [k \in 1..Len(frequencies) |->
        [token |-> frequencies[k].key, count |-> frequencies[k].value]]

\* pd.DataFrame(rows).sort_values("count", ascending=False) of a dict with
\* entries: the rows by descending count, equal counts in the dict's order
\* (numpy sorts the at most 16 rows of the model by insertion)
FrequencyFrame(frequencies) == FrequencyRows(most_common(frequencies))

\* what an export function did: ok is its return value, data what the file
\* holds
NotExported == [ok |-> FALSE, data |-> <<>>]

Exported(data) == [ok |-> TRUE, data |-> data]

\* export_to_json: json.dumps(data.model_dump()), the object itself
export_to_json(data) == Exported(data)

\* export_to_csv of a TokenAnalysis: the token table
TokenTableCsv(analysis) == Exported(DataFrame(FlatRows(analysis.token_table)))

\* export_to_csv of a TokenFrequency: sort_values on the DataFrame of no
\* rows, which has no column "count", raises KeyError and nothing is written
FrequencyCsv(freq) ==
    IF freq.frequencies = <<>> THEN NotExported
    ELSE Exported(FrequencyFrame(freq.frequencies))

\* f"{tokenizer_name[:10]} Freq"
SheetNames ==
    [tiktoken |-> "tiktoken Freq", huggingface |-> "huggingfac Freq",
     sentencepiece |-> "sentencepi Freq", mock |-> "mock Freq"]

\* the sheets "<tokenizer> Freq" of the Excel file
FrequencySheets(frequencies) ==
    [k \in 1..Len(frequencies) |->
        [key |-> SheetNames[frequencies[k].key],
         value |-> FrequencyFrame(frequencies[k].value.frequencies)]]

\* the sheet "Stats", without its two columns of formatted numbers
StatsSheet(stats) ==
    [k \in 1..Len(stats) |->
        [Tokenizer |-> stats[k].key,
         TotalTokens |-> stats[k].value.total_tokens,
         UniqueTokens |-> stats[k].value.unique_tokens,
         VocabSize |-> stats[k].value.vocab_size,
         Status |-> stats[k].value.reconstruction_status]]

\* the sheet "Summary"
SummarySheet(summary) ==
    [k \in 1..Len(summary.tokenizers_used) |->
        [Tokenizer |-> summary.tokenizers_used[k],
         TotalTokens |-> Get(summary.total_tokens, summary.tokenizers_used[k]),
         MostCommon |-> Get(summary.most_common_token, summary.tokenizers_used[k]),
         Rarest |-> Get(summary.rarest_token, summary.tokenizers_used[k])]]

\* export_to_excel: the sort_values of a tokenizer without tokens raises
\* inside the writer and the export returns False
export_to_excel(analysis, frequencies, summary) ==
    IF \E k \in 1..Len(frequencies) : frequencies[k].value.frequencies = <<>>
    THEN NotExported
    ELSE Exported([token_table |-> DataFrame(FlatRows(analysis.token_table)),
                   frequencies |-> FrequencySheets(frequencies),
                   stats |-> StatsSheet(analysis.stats),
                   summary |-> SummarySheet(summary)])

\* the files export_results tries to write for a format, by their keys in
\* exported_files, in the order it writes them
ExportKeys(names, format_type) ==
    (IF format_type \in {"all", "excel"} THEN <<<<"excel", "">>>> ELSE <<>>)
    \o (IF format_type \in {"all", "json"}
        THEN <<<<"json_analysis", "">>, <<"json_summary", "">>>>
             \o [k \in 1..Len(names) |-> <<"json_freq", names[k]>>]
        ELSE <<>>)
    \o (IF format_type \in {"all", "csv"}
        THEN <<<<"csv_table", "">>>>
             \o [k \in 1..Len(names) |-> <<"csv_freq", names[k]>>]
        ELSE <<>>)

\* the export function export_results calls for the file with this key
ExportFile(key, analysis, frequencies, summary) ==
    IF key[1] = "excel" THEN export_to_excel(analysis, frequencies, summary)
    ELSE IF key[1] = "json_analysis" THEN export_to_json(analysis)
    ELSE IF key[1] = "json_summary" THEN export_to_json(summary)
    ELSE IF key[1] = "json_freq" THEN export_to_json(Get(frequencies, key[2]))
    ELSE IF key[1] = "csv_table" THEN TokenTableCsv(analysis)
    ELSE FrequencyCsv(Get(frequencies, key[2]))

\* every file counted as written, whatever its export function returned
WrittenFilesAll(keys, analysis, frequencies, summary, failing) ==
    [k \in 1..Len(keys) |->
        [key |-> keys[k],
         value |-> ExportFile(keys[k], analysis, frequencies, summary)]]

\* the files export_results leaves in the output directory, in the order of
\* their writing; `failing` holds the files whose write the file system
\* refuses
WrittenFiles(keys, analysis, frequencies, summary, failing) ==
    SelectSeq([k \in 1..Len(keys) |->
                  [key |-> keys[k],
                   value |-> ExportFile(keys[k], analysis, frequencies, summary)]],
              LAMBDA file : file.key \notin failing /\ file.value.ok)

\* the output directory after export_results
Written(analysis, frequencies, summary, format_type, failing) ==
    WrittenFiles(ExportKeys(KeyList(frequencies), format_type),
                 analysis, frequencies, summary, failing)

\* export_results: the keys of exported_files
export_results(analysis, frequencies, summary, format_type, failing) ==
    KeyList(Written(analysis, frequencies, summary, format_type, failing))

----------------------------------------------------------------------------
(* The plugin: TokenScopePlugin *)

tokenizers_to_load == <<"tiktoken", "huggingface", "sentencepiece">>

\* the real back-ends the registry knows
Loadable == Range(tokenizers_to_load) \cap TOKENIZER_REGISTRY

\* no call has been made, or the caller has taken its result
NoResult == [op |-> "none", success |-> FALSE, error |-> "", content |-> <<>>]

success_result(op, content) ==
    [op |-> op, success |-> TRUE, error |-> "", content |-> content]

error_result(op, error) ==
    [op |-> op, success |-> FALSE, error |-> error, content |-> <<>>]

\* what constructing and initializing one back-end can do: initialize()
\* returns (True with a model loaded, or False), or an exception is raised
Outcomes ==
    {[load |-> l, raises |-> FALSE] : l \in Loads}
        \cup {[load |-> NoEncoding, raises |-> TRUE]}

\* one pass of the loop "for tokenizer_name in tokenizers_to_load"; r is what
\* the tokenizer's initialize() does
LoadOne(st, tokenizer_name, raises, r) ==
    IF tokenizer_name \notin TOKENIZER_REGISTRY
    THEN [st EXCEPT !.outcome[tokenizer_name] = "unknown"]
    ELSE IF raises
    THEN [st EXCEPT !.outcome[tokenizer_name] = "raised"]
    ELSE IF r.value
    THEN [pool |-> DictSet(st.pool, tokenizer_name, r.adapter),
          outcome |-> [st.outcome EXCEPT ![tokenizer_name] = "true"]]
    ELSE [st EXCEPT !.outcome[tokenizer_name] = "false"]

\* the loop of initialize(), from the k-th name on: st holds the pool and
\* what each initialize() did
RECURSIVE LoadTokenizers(_, _, _)
LoadTokenizers(st, k, outs) ==
    IF k > Len(tokenizers_to_load) THEN st
    ELSE LoadTokenizers(
            LoadOne(st, tokenizers_to_load[k],
                    tokenizers_to_load[k] \in DOMAIN outs /\ outs[tokenizers_to_load[k]].raises,
                    IF tokenizers_to_load[k] \in DOMAIN outs
                    THEN Initialize(New(tokenizers_to_load[k]), outs[tokenizers_to_load[k]].load)
                    ELSE [adapter |-> New(tokenizers_to_load[k]), value |-> FALSE]),
            k + 1, outs)

\* initialize() without the fall-back
NoFallback(st) == st

\* "if not self._tokenizers": the fall-back to the mock tokenizer
MockFallback(st) ==
    IF st.pool = <<>>
    THEN [st EXCEPT !.pool = DictSet(st.pool, "mock", MockInitialize(New("mock")).adapter)]
    ELSE st

\* TokenScopePlugin.initialize() of a plugin that is not initialized: the
\* pool and the outcomes it leaves
initialize(pool, outs) ==
    MockFallback(
        IF use_mock
        THEN [pool |-> DictSet(pool, "mock", MockInitialize(New("mock")).adapter),
              outcome |-> [n \in Range(tokenizers_to_load) |-> "none"]]
        ELSE LoadTokenizers([pool |-> pool,
                             outcome |-> [n \in Range(tokenizers_to_load) |-> "none"]],
                            1, outs))

\* the tokenizers option of process_file
TokenizerOptions ==
    { <<>>, <<"tiktoken">>, <<"huggingface", "tiktoken">>, <<"gpt2">> }

\* content[:char_limit]
Limit(content, char_limit) ==
    IF char_limit > 0 THEN SubSeq(content, 1, Min(char_limit, Len(content)))
    ELSE content

\* the pool's entries of these names, in the order of the names
EntriesOf(pool, names) ==
    [k \in 1..Len(names) |-> [key |-> names[k], value |-> Get(pool, names[k])]]

\* the tokenizers asked for, in the order in which the caller names them
ChosenAsNamed(pool, tokenizer_names) ==
    EntriesOf(pool, SelectSeq(tokenizer_names, LAMBDA n : n \in Keys(pool)))

\* the pool's tokenizers whose names are asked for
Chosen(pool, tokenizer_names) ==
    SelectSeq(pool, LAMBDA e : e.key \in Range(tokenizer_names))

\* the tokenizers _process_local_file hands to _analyze_file
SelectTokenizers(pool, tokenizer_names) ==
    IF tokenizer_names # <<>> /\ Chosen(pool, tokenizer_names) # <<>>
    THEN Chosen(pool, tokenizer_names)
    ELSE pool

\* _process_local_file after the analysis: an exception, of the analysis or
\* of output_dir.mkdir, becomes an error result, else the results are
\* exported and returned
Respond(toks, ar, options, failing) ==
    IF ar.raised # "none"
    THEN [analysis |-> ar, result |-> error_result("process_file", ar.raised),
          written |-> <<>>]
    ELSE IF options.no_dir
    THEN [analysis |-> ar, result |-> error_result("process_file", "OSError"),
          written |-> <<>>]
    ELSE [analysis |-> ar,
          written |-> Written(ar.analysis, ar.frequencies, ar.summary,
                              options.output_format, failing),
          result |-> success_result("process_file",
              IF options.verbose
              THEN [analysis |-> ar.analysis,
                    summary |-> ar.summary,
                    exported_files |->
                        export_results(ar.analysis, ar.frequencies, ar.summary,
                                       options.output_format, failing),
                    tokenizers_used |-> KeyList(toks)]
              ELSE [summary |-> ar.summary,
                    exported_files |->
                        export_results(ar.analysis, ar.frequencies, ar.summary,
                                       options.output_format, failing),
                    tokenizers_used |-> KeyList(toks)])]

Analyze(content, toks, options, failing) ==
    Respond(toks, analyze_file(content, toks), options, failing)

\* _process_local_file on a readable file: the analysis and the result
process_local_file(pool, text, options, failing) ==
    Analyze(Limit(text, options.limit),
            SelectTokenizers(pool, options.tokenizers), options, failing)

----------------------------------------------------------------------------
(* The plugin host: plugin.py.  Each process has its own module state      *)
(* (_PLUGIN_REGISTRY, the class attribute _instance) and shares the lock   *)
(* file with the others.  A step is one access to the file system; opening, *)
(* writing and closing the lock file for writing is one step.              *)

\* the processes; a process's number is its PID
Pids == {1, 2}

\* the calls of initialize() and process_file() a process makes at most
MaxCalls == 2

\* the values of time.time() at which something happens
Times == {0, 599, 600}

\* "current_time - mtime < 600"
LOCK_SECONDS == 600

\* no lock file
NoLock == [exists |-> FALSE, pid |-> <<>>, mtime |-> 0]

\* the lock file after f.write(str(os.getpid())) at the time t
LockOf(pid, t) == [exists |-> TRUE, pid |-> Str(pid), mtime |-> t]

\* a lock of exactly 600 seconds taken for a recent one
IsRecentInclusive(mtime, current_time) == current_time - mtime <= LOCK_SECONDS

\* the test of _check_other_instances on the lock's modification time
IsRecent(mtime, current_time) == current_time - mtime < LOCK_SECONDS

\* a process that has imported plugin.py: no plugin object yet.  registry
\* and instance hold the object of _PLUGIN_REGISTRY and of
\* QuackTokenScopePlugin._instance (0: none), objects counts the objects
\* made, plugin is the object the caller got from create_plugin();
\* initialized and token_scope_plugin are the object's attributes, made
\* counts the TokenScopePlugin objects made; unlinked is the content of the
\* lock file that __del__ removed
NoProcess ==
    [pc |-> "idle", op |-> "none", last |-> "none",
     registry |-> 0, instance |-> 0, objects |-> 0, plugin |-> 0,
     initialized |-> FALSE, token_scope_plugin |-> 0, made |-> 0,
     calls |-> 0, result |-> "none", unlinked |-> <<>>]

\* QuackTokenScopePlugin(): __new__ makes the one object of the class when
\* there is none; __init__ returns at once for an initialized object and
\* else sets _initialized and _token_scope_plugin
NewPlugin(pr) ==
    IF pr.instance = 0
    THEN [pr EXCEPT !.objects = pr.objects + 1, !.instance = pr.objects + 1,
                    !.initialized = FALSE, !.token_scope_plugin = 0]
    ELSE IF pr.initialized THEN pr
    ELSE [pr EXCEPT !.initialized = FALSE, !.token_scope_plugin = 0]

\* create_plugin() after the constructor: the object is registered and
\* returned, not initialized
Register(pr) ==
    [pr EXCEPT !.initialized = FALSE, !.registry = pr.instance,
               !.plugin = pr.instance, !.last = "create_plugin"]

\* create_plugin() that returns the registered object as it is
create_plugin_as_is(pr) ==
    IF pr.registry # 0
    THEN [pr EXCEPT !.plugin = pr.registry, !.last = "create_plugin"]
    ELSE Register(NewPlugin(pr))

\* create_plugin(): the registered object with _initialized set to False,
\* or a new object
create_plugin(pr) ==
    IF pr.registry # 0
    THEN [pr EXCEPT !.initialized = FALSE, !.plugin = pr.registry,
                    !.last = "create_plugin"]
    ELSE Register(NewPlugin(pr))

\* a call of initialize() or process_file() begins; process_file() calls
\* initialize() when the object is not initialized
Called(pr, op) ==
    [pr EXCEPT !.op = op, !.last = op, !.calls = pr.calls + 1,
               !.result = "none",
               !.pc = IF op = "process_file" /\ pr.initialized
                      THEN "delegate" ELSE "exists"]

\* the step a call goes to after _LOCK_FILE.exists()
AfterExists(lk) == IF lk.exists THEN "stat" ELSE "write"

\* the step after stat() and time.time(): a recent lock is read, an old one
\* overwritten; stat() of a lock that is gone raises and the call goes on
\* without a lock
AfterStat(lk, current_time) ==
    IF ~lk.exists THEN "init"
    ELSE IF IsRecent(lk.mtime, current_time) THEN "read"
    ELSE "write"

\* initialize() returns an error result
Refused(pr, error) ==
    [pr EXCEPT !.pc = "idle", !.op = "none", !.result = error]

\* self._token_scope_plugin = TokenScopePlugin(); its initialize() gives
\* success or an error result
TokenScopeMade(pr, success) ==
    IF ~success
    THEN [pr EXCEPT !.made = pr.made + 1, !.token_scope_plugin = pr.made + 1,
                    !.pc = "idle", !.op = "none", !.result = "not initialized"]
    ELSE IF pr.op = "initialize"
    THEN [pr EXCEPT !.made = pr.made + 1, !.token_scope_plugin = pr.made + 1,
                    !.initialized = TRUE,
                    !.pc = "idle", !.op = "none", !.result = "initialized"]
    ELSE [pr EXCEPT !.made = pr.made + 1, !.token_scope_plugin = pr.made + 1,
                    !.initialized = TRUE, !.pc = "delegate"]

\* process_file() hands the call to the TokenScopePlugin, if there is one
Delegated(pr, success) ==
    [pr EXCEPT !.pc = "idle", !.op = "none",
               !.result = IF pr.token_scope_plugin = 0 THEN "no token scope plugin"
                          ELSE IF success THEN "processed"
                          ELSE "not processed"]

\* the step of __del__ after it has read the lock file
AfterRead(lk, pid) ==
    IF lk.exists /\ lk.pid = Str(pid) THEN "del_unlink" ELSE "exited"

\* _LOCK_FILE.unlink() in __del__; of a lock that is gone it raises, which
\* is passed over
Unlinked(pr, lk) ==
    [pr EXCEPT !.pc = "exited",
               !.unlinked = IF lk.exists THEN lk.pid ELSE pr.unlinked]

----------------------------------------------------------------------------
(* The plugin's calls *)

\* limit, output_format and verbose options of process_file (limit 0: the
\* default, no limit), with what the file system does: the files whose write
\* fails, and no_dir when the output directory cannot be made
OutputOptions ==
    { [limit |-> 0, output_format |-> "excel", verbose |-> FALSE, failing |-> {},
       no_dir |-> FALSE],
      [limit |-> 2, output_format |-> "json", verbose |-> TRUE, failing |-> {},
       no_dir |-> FALSE],
      [limit |-> 0, output_format |-> "all", verbose |-> FALSE,
       failing |-> {<<"excel", "">>, <<"json_summary", "">>, <<"csv_freq", "tiktoken">>},
       no_dir |-> FALSE],
      [limit |-> 0, output_format |-> "xml", verbose |-> FALSE, failing |-> {},
       no_dir |-> FALSE],
      [limit |-> 0, output_format |-> "csv", verbose |-> FALSE, failing |-> {},
       no_dir |-> TRUE] }

Requests ==
    { [text |-> t, tokenizers |-> n, out |-> o] :
        t \in Texts, n \in TokenizerOptions, o \in OutputOptions }

\* what the back-ends do in an initialize() that loads them; an initialized
\* plugin loads nothing, and neither does one that uses the mock tokenizer
LoadChoices ==
    IF initialized \/ use_mock
    THEN {[n \in Loadable |-> [load |-> NoEncoding, raises |-> FALSE]]}
    ELSE [Loadable -> Outcomes]

NoCall == [op |-> "none", before |-> New("mock"), out |-> Raise("none")]

\* no process_file call has read a file
NoRequest ==
    [text |-> <<>>, tokenizers |-> <<>>,
     out |-> [limit |-> 0, output_format |-> "", verbose |-> FALSE,
              failing |-> {}, no_dir |-> FALSE]]

Init ==
    /\ USE_LEVENSHTEIN \in BOOLEAN
    /\ use_mock \in BOOLEAN
    /\ initialized = FALSE
    /\ tokenizers = <<>>
    /\ load_outcome = [n \in Range(tokenizers_to_load) |-> "none"]
    /\ analysis_result = NoAnalysis
    /\ result = NoResult
    /\ request = NoRequest
    /\ written = <<>>
    /\ adapter = New("mock")
    /\ ret = NoCall
    /\ now = 0
    /\ lock = NoLock
    /\ procs = [p \in Pids |-> NoProcess]

\* an initialize() without its guard "if self._initialized"
StartedAnew(outs) == initialize(tokenizers, outs)

\* the pool and the outcomes after "if self._initialized: return" or the
\* loading of the tokenizers
Started(outs) ==
    IF initialized
    THEN [pool |-> tokenizers, outcome |-> load_outcome]
    ELSE initialize(tokenizers, outs)

\* self._tokenizers and self._initialized after initialize()
Starts(st) ==
    /\ tokenizers' = st.pool
    /\ load_outcome' = st.outcome
    /\ initialized' = TRUE

\* TokenScopePlugin.initialize()
PluginInitialize ==
    /\ result = NoResult
    /\ \E outs \in LoadChoices : Starts(Started(outs))
    /\ result' = success_result("initialize", <<>>)
    /\ UNCHANGED <<USE_LEVENSHTEIN, use_mock, analysis_result, request, written,
                   adapter, ret, lockVars>>

\* what _process_local_file returns
Responds(r) ==
    /\ result' = r.result
    /\ analysis_result' = r.analysis
    /\ written' = r.written

\* _process_local_file with the pool of st
ProcessLocalFile(st) ==
    /\ Starts(st)
    /\ \/ \E error \in {"File not found", "Not a file"} :
            /\ result' = error_result("process_file", error)
            /\ analysis_result' = NoAnalysis
            /\ request' = NoRequest
            /\ written' = <<>>
       \/ \E req \in Requests :
            /\ request' = req
            /\ Responds(process_local_file(st.pool, req.text,
                        [limit |-> req.out.limit,
                         tokenizers |-> req.tokenizers,
                         output_format |-> req.out.output_format,
                         verbose |-> req.out.verbose,
                         no_dir |-> req.out.no_dir],
                        req.out.failing))

\* TokenScopePlugin.process_file(file_path, output_path, options) with a
\* local path; it initializes a plugin that is not initialized
ProcessFile ==
    /\ result = NoResult
    /\ \E outs \in LoadChoices : ProcessLocalFile(Started(outs))
    /\ UNCHANGED <<USE_LEVENSHTEIN, use_mock, adapter, ret, lockVars>>

\* the caller takes the result of the call
Return ==
    /\ result # NoResult
    /\ result' = NoResult
    /\ analysis_result' = NoAnalysis
    /\ request' = NoRequest
    /\ written' = <<>>
    /\ UNCHANGED <<USE_LEVENSHTEIN, use_mock, initialized, tokenizers,
                   load_outcome, adapter, ret, lockVars>>

Next == PluginInitialize \/ ProcessFile \/ Return

Spec == Init /\ [][Next]_vars

----------------------------------------------------------------------------
(* A tokenizer object used directly *)

\* token ids handed to decode
DecodeInputs == UNION {[1..n -> {97, 98, 225}] : n \in 0..2}

Construct ==
    /\ \E cls \in AdapterClasses :
        /\ adapter' = New(cls)
        /\ ret' = [op |-> "construct", before |-> adapter, out |-> Raise("none")]
    /\ UNCHANGED <<USE_LEVENSHTEIN, pluginVars, lockVars>>

\* what initialize() leaves and returns
Initialized(r) ==
    /\ adapter' = r.adapter
    /\ ret' = [op |-> "initialize", before |-> adapter,
               out |-> [raised |-> "none", value |-> r.value]]

CallInitialize ==
    /\ \E load \in (IF adapter.cls = "sentencepiece"
                    THEN Loads \cup {Unloaded} ELSE Loads) :
        Initialized(Initialize(adapter, load))
    /\ UNCHANGED <<USE_LEVENSHTEIN, pluginVars, lockVars>>

\* a tokenize that initializes the tokenizer it is called on
CallTokenizeInitializing ==
    /\ \E text \in Texts :
        /\ adapter' = [adapter EXCEPT !.initialized = TRUE]
        /\ ret' = [op |-> "tokenize", before |-> adapter, arg |-> text,
                   out |-> Tokenize(adapter, text)]
    /\ UNCHANGED <<USE_LEVENSHTEIN, pluginVars, lockVars>>

CallTokenize ==
    /\ \E text \in Texts :
        ret' = [op |-> "tokenize", before |-> adapter, arg |-> text,
                out |-> Tokenize(adapter, text)]
    /\ UNCHANGED <<USE_LEVENSHTEIN, pluginVars, adapter, lockVars>>

CallDecode ==
    /\ \E ids \in DecodeInputs :
        ret' = [op |-> "decode", before |-> adapter, arg |-> ids,
                out |-> Decode(adapter, ids)]
    /\ UNCHANGED <<USE_LEVENSHTEIN, pluginVars, adapter, lockVars>>

CallGetVocabSize ==
    /\ ret' = [op |-> "get_vocab_size", before |-> adapter,
               out |-> GetVocabSize(adapter)]
    /\ UNCHANGED <<USE_LEVENSHTEIN, pluginVars, adapter, lockVars>>

NextAdapter ==
    Construct \/ CallInitialize \/ CallTokenize \/ CallDecode \/ CallGetVocabSize

SpecAdapter == Init /\ [][NextAdapter]_vars

----------------------------------------------------------------------------
(* The functions of utils/reverse_mapping.py and utils/frequency.py called  *)
(* directly                                                                *)

\* largest denominator of the similarity scores handed to the status step
MaxDen == 10

\* largest count handed to classify_token_rarity
MaxCount == 3

\* the total_tokens handed to classify_token_rarity
Totals == {0, 1, 99, 100, 101, 999, 1000, 1001, 2000, 2001}

\* calculate_similarity(original, reconstructed)
CallCalculateSimilarity ==
    /\ ret = NoCall
    /\ \E original \in Texts, reconstructed \in Texts :
        ret' = [op |-> "calculate_similarity", before |-> adapter,
                arg |-> <<original, reconstructed>>,
                out |-> calculate_similarity(original, reconstructed)]
    /\ UNCHANGED <<USE_LEVENSHTEIN, pluginVars, adapter, lockVars>>

\* the step of evaluate_reconstruction that turns the similarity into the
\* status
CallScoreStatus ==
    /\ ret = NoCall
    /\ \E den \in 1..MaxDen : \E num \in 0..den :
        ret' = [op |-> "status", before |-> adapter,
                arg |-> <<num, den>>,
                out |-> ScoreStatus(<<num, den>>)]
    /\ UNCHANGED <<USE_LEVENSHTEIN, pluginVars, adapter, lockVars>>

\* classify_token_rarity(token, count, total_tokens)
CallClassifyTokenRarity ==
    /\ ret = NoCall
    /\ \E token \in {<<97>>}, count \in 0..MaxCount, total_tokens \in Totals :
        ret' = [op |-> "classify_token_rarity", before |-> adapter,
                arg |-> <<count, total_tokens>>,
                out |-> classify_token_rarity(token, count, total_tokens)]
    /\ UNCHANGED <<USE_LEVENSHTEIN, pluginVars, adapter, lockVars>>

\* the caller takes the value of the call
TakeValue ==
    /\ ret # NoCall
    /\ ret' = NoCall
    /\ UNCHANGED <<USE_LEVENSHTEIN, pluginVars, adapter, lockVars>>

NextFunctions ==
    CallCalculateSimilarity \/ CallScoreStatus \/ CallClassifyTokenRarity
        \/ TakeValue

SpecFunctions == Init /\ [][NextFunctions]_vars

----------------------------------------------------------------------------
(* The processes of the plugin host *)

\* the process p takes the step that turns its record into pr
Step(p, pr) ==
    /\ procs' = [procs EXCEPT ![p] = pr]
    /\ UNCHANGED <<USE_LEVENSHTEIN, pluginVars, adapterVars>>

\* create_plugin()
CreatePlugin(p) ==
    /\ procs[p].pc = "idle"
    /\ Step(p, create_plugin(procs[p]))
    /\ UNCHANGED <<now, lock>>

\* plugin.initialize() or plugin.process_file(...) is called
Call(p) ==
    /\ procs[p].pc = "idle"
    /\ procs[p].plugin # 0
    /\ procs[p].calls < MaxCalls
    /\ \E op \in {"initialize", "process_file"} : Step(p, Called(procs[p], op))
    /\ UNCHANGED <<now, lock>>

\* _check_other_instances: "if _LOCK_FILE.exists()"
CheckExists(p) ==
    /\ procs[p].pc = "exists"
    /\ Step(p, [procs[p] EXCEPT !.pc = AfterExists(lock)])
    /\ UNCHANGED <<now, lock>>

\* _check_other_instances: the lock's modification time against the clock
CheckTime(p) ==
    /\ procs[p].pc = "stat"
    /\ Step(p, [procs[p] EXCEPT !.pc = AfterStat(lock, now)])
    /\ UNCHANGED <<now, lock>>

\* _check_other_instances reads the PID for its message, and initialize()
\* returns the error
ReadLock(p) ==
    /\ procs[p].pc = "read"
    /\ Step(p, Refused(procs[p], "another instance"))
    /\ UNCHANGED <<now, lock>>

\* _check_other_instances writes the PID to the lock file
WriteLock(p) ==
    /\ procs[p].pc = "write"
    /\ lock' = LockOf(p, now)
    /\ Step(p, [procs[p] EXCEPT !.pc = "init"])
    /\ UNCHANGED now

\* initialize() makes and initializes the TokenScopePlugin
InitializeTokenScope(p) ==
    /\ procs[p].pc = "init"
    /\ \E success \in BOOLEAN : Step(p, TokenScopeMade(procs[p], success))
    /\ UNCHANGED <<now, lock>>

\* process_file() delegates to the TokenScopePlugin
Delegate(p) ==
    /\ procs[p].pc = "delegate"
    /\ \E success \in BOOLEAN : Step(p, Delegated(procs[p], success))
    /\ UNCHANGED <<now, lock>>

\* the process ends and its plugin object is finalised: __del__ begins
Finalise(p) ==
    /\ procs[p].pc = "idle"
    /\ procs[p].instance # 0
    /\ Step(p, [procs[p] EXCEPT !.pc = "del_exists"])
    /\ UNCHANGED <<now, lock>>

\* __del__: "if _LOCK_FILE.exists()"
DelExists(p) ==
    /\ procs[p].pc = "del_exists"
    /\ Step(p, [procs[p] EXCEPT !.pc = IF lock.exists THEN "del_read" ELSE "exited"])
    /\ UNCHANGED <<now, lock>>

\* __del__ reads the lock file and compares the PID with its own
DelRead(p) ==
    /\ procs[p].pc = "del_read"
    /\ Step(p, [procs[p] EXCEPT !.pc = AfterRead(lock, p)])
    /\ UNCHANGED <<now, lock>>

\* __del__: _LOCK_FILE.unlink()
DelUnlink(p) ==
    /\ procs[p].pc = "del_unlink"
    /\ lock' = NoLock
    /\ Step(p, Unlinked(procs[p], lock))
    /\ UNCHANGED now

\* the process ends without finalising its plugin object
Kill(p) ==
    /\ procs[p].pc = "idle"
    /\ procs[p].calls > 0
    /\ Step(p, [procs[p] EXCEPT !.pc = "exited"])
    /\ UNCHANGED <<now, lock>>

\* time passes
Tick ==
    /\ \E t \in Times : t > now /\ now' = t
    /\ UNCHANGED <<lock, procs, USE_LEVENSHTEIN, pluginVars, adapterVars>>

ProcessStep(p) ==
    \/ CreatePlugin(p) \/ Call(p)
    \/ CheckExists(p) \/ CheckTime(p) \/ ReadLock(p) \/ WriteLock(p)
    \/ InitializeTokenScope(p) \/ Delegate(p)
    \/ Finalise(p) \/ DelExists(p) \/ DelRead(p) \/ DelUnlink(p)
    \/ Kill(p)

NextLock == Tick \/ \E p \in Pids : ProcessStep(p)

\* the processes start at the time 0 without a lock file; the settings of
\* the analysis engine play no part
InitLock == Init /\ USE_LEVENSHTEIN /\ ~use_mock

SpecLock == InitLock /\ [][NextLock]_vars

----------------------------------------------------------------------------
(* Properties of the aggregator and of the adapter pool *)

\* the tokenizers of the last _analyze_file call whose tokenize raises on its
\* content, and those whose tokenize returns
Failing ==
    SelectSeq(analysis_result.tokenizers,
              LAMBDA e : Tokenize(e.value, analysis_result.content).raised # "none")

Succeeding ==
    SelectSeq(analysis_result.tokenizers,
              LAMBDA e : Tokenize(e.value, analysis_result.content).raised = "none")

\* C1: when the tokenize of one adapter raises while the tokenize of another
\* succeeds, _analyze_file raises nothing and returns a result whose
\* tokenizers_used is exactly the succeeding adapters in their order, with
\* stats and frequencies for those adapters only.
C1_PartialFailureTolerated ==
    (analysis_result.raised # "not called" /\ Failing # <<>> /\ Succeeding # <<>>) =>
        /\ analysis_result.raised = "none"
        /\ analysis_result.analysis.tokenizers_used = KeyList(Succeeding)
        /\ KeyList(analysis_result.analysis.stats) = KeyList(Succeeding)
        /\ KeyList(analysis_result.frequencies) = KeyList(Succeeding)

\* C2: when the tokenize of no adapter succeeds, _analyze_file fails with the
\* distinguished error NoAdaptersAvailable, the caller gets one error and no
\* result.
C2_NoAdaptersAvailable ==
    (analysis_result.raised # "not called" /\ Succeeding = <<>>) =>
        /\ analysis_result.raised = "NoAdaptersAvailable"
        /\ ~result.success

\* C3: best_match is one of tokenizers_used, no adapter of the analysis has a
\* larger reconstruction_score, every adapter listed before it has a smaller
\* one, and TokenSummary holds the same best_match as TokenAnalysis.
C3_BestMatch ==
    analysis_result.raised = "none" =>
        LET used == analysis_result.analysis.tokenizers_used
            stats == analysis_result.analysis.stats
            best == analysis_result.analysis.best_match
        IN  /\ best \in Range(used)
            /\ \A k \in 1..Len(stats) :
                   ~ScoreLess(Get(stats, best).reconstruction_score,
                              stats[k].value.reconstruction_score)
            /\ \A i, j \in 1..Len(used) :
                   (i < j /\ used[j] = best) =>
                       ScoreLess(Get(stats, used[i]).reconstruction_score,
                                 Get(stats, best).reconstruction_score)
            /\ analysis_result.summary.best_match = best

\* two adapters tie at the largest score and the first of them is best_match
C3_Witness ==
    /\ analysis_result.raised = "none"
    /\ Len(analysis_result.analysis.stats) = 2
    /\ analysis_result.analysis.stats[1].value.reconstruction_score
           = analysis_result.analysis.stats[2].value.reconstruction_score
    /\ analysis_result.analysis.best_match = analysis_result.analysis.stats[1].key
    /\ analysis_result.content # <<>>

\* C4: token_table has as many rows as the largest total_tokens, row i has
\* token_index i, and row i has an entry for an adapter exactly when i is less
\* than the adapter's total_tokens, the entry being the adapter's i-th id and
\* segment.
C4_TokenTable ==
    analysis_result.raised = "none" =>
        LET table == analysis_result.analysis.token_table
            total == analysis_result.summary.total_tokens
        IN  /\ \A k \in 1..Len(total) : total[k].value <= Len(table)
            /\ \E k \in 1..Len(total) : total[k].value = Len(table)
            /\ \A i \in 1..Len(table) :
                   /\ table[i].token_index = i - 1
                   /\ Keys(table[i].tokenizer_data) \subseteq Keys(total)
                   /\ \A k \in 1..Len(total) :
                          /\ total[k].key \in Keys(table[i].tokenizer_data)
                                 <=> i - 1 < total[k].value
                          /\ i - 1 < total[k].value =>
                                 Get(table[i].tokenizer_data, total[k].key) =
                                     [id |-> Tokenize(Get(analysis_result.tokenizers, total[k].key),
                                                      analysis_result.content).ids[i],
                                      str |-> Tokenize(Get(analysis_result.tokenizers, total[k].key),
                                                       analysis_result.content).strs[i]]

\* the adapter processed first is the shorter one, so the second one finds
\* rows and appends rows
C4_Witness ==
    /\ analysis_result.raised = "none"
    /\ Len(analysis_result.summary.total_tokens) = 2
    /\ 0 < analysis_result.summary.total_tokens[1].value
    /\ analysis_result.summary.total_tokens[1].value
           < analysis_result.summary.total_tokens[2].value

\* C5: the keys of stats, total_tokens, frequencies, most_common_token and
\* rarest_token are the names in tokenizers_used, and TokenAnalysis and
\* TokenSummary list the same tokenizers_used.
C5_KeySets ==
    analysis_result.raised = "none" =>
        LET used == Range(analysis_result.analysis.tokenizers_used)
        IN  /\ Keys(analysis_result.analysis.stats) = used
            /\ Keys(analysis_result.summary.total_tokens) = used
            /\ Keys(analysis_result.frequencies) = used
            /\ Keys(analysis_result.summary.most_common_token) = used
            /\ Keys(analysis_result.summary.rarest_token) = used
            /\ analysis_result.analysis.tokenizers_used
                   = analysis_result.summary.tokenizers_used

\* an analysis with one tokenizer chosen from a pool of two
C5_Witness ==
    /\ analysis_result.raised = "none"
    /\ Len(tokenizers) = 2
    /\ analysis_result.analysis.tokenizers_used = <<"tiktoken">>
    /\ Keys(analysis_result.frequencies) = {"tiktoken"}

\* the sum of the counts of a frequency table
Total(counter) == SumSeq([j \in 1..Len(counter) |-> counter[j].value])

\* C6: for every adapter of a returned analysis the counts of frequencies sum
\* to its stats.total_tokens, and so do the counts of id_frequencies.
C6_CountSums ==
    analysis_result.raised = "none" =>
        \A k \in 1..Len(analysis_result.frequencies) :
            /\ Total(analysis_result.frequencies[k].value.frequencies)
                   = Get(analysis_result.analysis.stats,
                         analysis_result.frequencies[k].key).total_tokens
            /\ Total(analysis_result.frequencies[k].value.id_frequencies)
                   = Get(analysis_result.analysis.stats,
                         analysis_result.frequencies[k].key).total_tokens

\* an adapter with a token id counted twice whose table of segments has more
\* keys than its table of ids
C6_Witness ==
    /\ analysis_result.raised = "none"
    /\ \E k \in 1..Len(analysis_result.frequencies) :
           /\ Len(analysis_result.frequencies[k].value.frequencies)
                  > Len(analysis_result.frequencies[k].value.id_frequencies)
           /\ \E j \in 1..Len(analysis_result.frequencies[k].value.id_frequencies) :
                  analysis_result.frequencies[k].value.id_frequencies[j].value >= 2

\* the real back-ends whose initialize() returned True
Loaded == {n \in Range(tokenizers_to_load) : load_outcome[n] = "true"}

----------------------------------------------------------------------------
(* Properties of one tokenizer object *)

\* C8: tokenize and get_vocab_size of a tokenizer whose initialize() has not
\* succeeded raise the not-initialized error, for every class, the mock
\* tokenizer too.
C8_NotInitialized ==
    (ret.op \in {"tokenize", "get_vocab_size"} /\ ~ret.before.initialized) =>
        ret.out.raised = "NotInitialized"

\* C9: initialize() of an initialized tokenizer returns True and leaves the
\* tokenizer as it was.
C9_InitializeIdempotent ==
    (ret.op = "initialize" /\ ret.before.initialized) =>
        /\ ret.out.value = TRUE
        /\ adapter = ret.before

\* C10: tokenize returns as many segments as ids, and none of either for the
\* empty text.
C10_EqualLengths ==
    (ret.op = "tokenize" /\ ret.out.raised = "none") =>
        /\ Len(ret.out.ids) = Len(ret.out.strs)
        /\ ret.arg = <<>> => ret.out.ids = <<>> /\ ret.out.strs = <<>>

\* a library tokenizer returned the ids and segments of a text of three
\* code points
C10_Witness ==
    /\ ret.op = "tokenize"
    /\ ret.out.raised = "none"
    /\ ret.before.cls # "mock"
    /\ Len(ret.arg) = 3
    /\ Len(ret.out.ids) = 2

----------------------------------------------------------------------------
(* Properties of the calls on one tokenizer, continued *)

----------------------------------------------------------------------------
(* Properties of the fidelity evaluator and of the frequency analyzer *)

\* C12: the mock tokenizer's decode gives back every text it tokenized, so
\* its reconstruction score is 1.0 and its status Flawless.
C12_MockLossless ==
    analysis_result.raised = "none" =>
        \A k \in 1..Len(analysis_result.analysis.stats) :
            analysis_result.analysis.stats[k].key = "mock" =>
                /\ analysis_result.analysis.stats[k].value.reconstruction_score[1]
                       = analysis_result.analysis.stats[k].value.reconstruction_score[2]
                /\ analysis_result.analysis.stats[k].value.reconstruction_status
                       = "Flawless"

\* C12, amended: the mock tokenizer's decode gives back every text it
\* tokenized whose code points are all below 128, so for such a text its
\* reconstruction score is 1.0 and its status Flawless.
C12_MockLosslessAscii ==
    (analysis_result.raised = "none"
         /\ \A i \in 1..Len(analysis_result.content) : analysis_result.content[i] < 128) =>
        \A k \in 1..Len(analysis_result.analysis.stats) :
            analysis_result.analysis.stats[k].key = "mock" =>
                /\ analysis_result.analysis.stats[k].value.reconstruction_score[1]
                       = analysis_result.analysis.stats[k].value.reconstruction_score[2]
                /\ analysis_result.analysis.stats[k].value.reconstruction_status
                       = "Flawless"

\* the mock tokenizer analysed a text of two different code points below 128
C12_Witness ==
    /\ analysis_result.raised = "none"
    /\ analysis_result.content = <<97, 98>>
    /\ analysis_result.analysis.tokenizers_used = <<"mock">>
    /\ analysis_result.analysis.stats[1].value.reconstruction_status = "Flawless"

\* C13: the status is Flawless exactly for the score 1.0, Imperfect exactly
\* for 0.9 <= score < 1.0 and Botched exactly for score < 0.9, so every score
\* has one status and a higher score never a worse one.
C13_StatusThresholds ==
    ret.op = "status" =>
        /\ ret.out \in {"Flawless", "Imperfect", "Botched"}
        /\ ret.out = "Flawless" <=> ret.arg[1] = ret.arg[2]
        /\ ret.out = "Imperfect" <=>
               (9 * ret.arg[2] <= 10 * ret.arg[1] /\ ret.arg[1] < ret.arg[2])
        /\ ret.out = "Botched" <=> 10 * ret.arg[1] < 9 * ret.arg[2]

\* the score 0.9 itself is Imperfect
C13_Witness ==
    /\ ret.op = "status"
    /\ ret.arg = <<9, 10>>
    /\ ret.out = "Imperfect"

\* C14: calculate_similarity gives 1.0 for a string and itself, 0.0 when
\* exactly one of the two strings is empty, and always a value in [0, 1],
\* with either metric.
C14_SimilarityBounds ==
    ret.op = "calculate_similarity" =>
        /\ ret.out[2] > 0
        /\ 0 <= ret.out[1]
        /\ ret.out[1] <= ret.out[2]
        /\ ret.arg[1] = ret.arg[2] => ret.out[1] = ret.out[2]
        /\ (ret.arg[1] = <<>>) # (ret.arg[2] = <<>>) => ret.out[1] = 0

\* the edit-distance metric compared a text of three code points with the
\* empty reconstruction
C14_Witness ==
    /\ ret.op = "calculate_similarity"
    /\ USE_LEVENSHTEIN
    /\ Len(ret.arg[1]) = 3
    /\ ret.arg[2] = <<>>
    /\ ret.out[1] = 0

\* the Levenshtein distance in which an insertion, a deletion and a
\* substitution cost 1 each
RECURSIVE EditDistance(_, _)
EditDistance(a, b) ==
    IF a = <<>> THEN Len(b)
    ELSE IF b = <<>> THEN Len(a)
    ELSE Min(Min(EditDistance(Tail(a), b) + 1, EditDistance(a, Tail(b)) + 1),
             EditDistance(Tail(a), Tail(b)) + (IF a[1] = b[1] THEN 0 ELSE 1))

\* C15: with the Levenshtein library, calculate_similarity(a, b) of a
\* non-empty a is 1 - editDistance(a, b) / max(len(a), len(b)).
C15_EditDistanceRatio ==
    (ret.op = "calculate_similarity" /\ USE_LEVENSHTEIN /\ ret.arg[1] # <<>>) =>
        ret.out[1] * Max(Len(ret.arg[1]), Len(ret.arg[2]))
            = ret.out[2] * (Max(Len(ret.arg[1]), Len(ret.arg[2]))
                               - EditDistance(ret.arg[1], ret.arg[2]))

\* C16: classify_token_rarity gives Legendary exactly when 100*count/total
\* (0 for total 0) is below 0.1, Rare exactly when it is at least 0.1 and
\* below 1.0, and Common otherwise.
C16_RarityThresholds ==
    ret.op = "classify_token_rarity" =>
        /\ ret.out = "Legendary" <=>
               (ret.arg[2] <= 0 \/ 1000 * ret.arg[1] < ret.arg[2])
        /\ ret.out = "Rare" <=>
               (ret.arg[2] > 0 /\ 1000 * ret.arg[1] >= ret.arg[2]
                    /\ 100 * ret.arg[1] < ret.arg[2])
        /\ ret.out = "Common" <=>
               (ret.arg[2] > 0 /\ 100 * ret.arg[1] >= ret.arg[2])

\* a frequency of exactly 1.0% is Common
C16_Witness ==
    /\ ret.op = "classify_token_rarity"
    /\ ret.arg = <<1, 100>>
    /\ ret.out = "Common"

\* C17, as stated: count 1 of 1000 tokens, a frequency of exactly 0.1%, is
\* Common.
C17_BoundaryCommon ==
    (ret.op = "classify_token_rarity" /\ ret.arg = <<1, 1000>>) =>
        ret.out = "Common"

\* C17, amended: count 1 of 1000 tokens, a frequency of exactly 0.1%, is
\* Rare: it is not Legendary, and not Common either.
C17_BoundaryRare ==
    (ret.op = "classify_token_rarity" /\ ret.arg = <<1, 1000>>) =>
        ret.out = "Rare"

\* classify_token_rarity was called with count 1 and total 1000
C17_Witness ==
    /\ ret.op = "classify_token_rarity"
    /\ ret.arg[1] = 1
    /\ ret.arg[2] = 1000
    /\ ret.out # "Legendary"

\* position of the first occurrence of x in s
FirstAt(s, x) == CHOOSE i \in 1..Len(s) : s[i] = x /\ \A j \in 1..(i - 1) : s[j] # x

\* the number of occurrences of x in s
Occurrences(s, x) == Cardinality({i \in 1..Len(s) : s[i] = x})

\* mc is the segment of strs with the highest count, the earliest of those
IsMostCommon(strs, mc) ==
    /\ mc.key \in Range(strs)
    /\ mc.value = Occurrences(strs, mc.key)
    /\ \A t \in Range(strs) :
           /\ Occurrences(strs, t) <= mc.value
           /\ (Occurrences(strs, t) = mc.value /\ t # mc.key) =>
                  FirstAt(strs, mc.key) < FirstAt(strs, t)

\* r is the segment of strs with the lowest count, the one of those whose
\* first occurrence is the latest
IsRarest(strs, r) ==
    /\ r.key \in Range(strs)
    /\ r.value = Occurrences(strs, r.key)
    /\ r.value > 0
    /\ \A t \in Range(strs) :
           /\ Occurrences(strs, t) >= r.value
           /\ (Occurrences(strs, t) = r.value /\ t # r.key) =>
                  FirstAt(strs, t) < FirstAt(strs, r.key)

\* the segments the k-th tokenizer of the last analysis gives for its content
SegmentsOf(k) ==
    Tokenize(analysis_result.tokenizers[k].value, analysis_result.content).strs

\* C18: for a text with at least one token, the most common token is the
\* segment with the highest count, with that count, and among the segments
\* with that count the one met first in the token sequence.
C18_MostCommon ==
    analysis_result.raised = "none" =>
        \A k \in 1..Len(analysis_result.tokenizers) :
            SegmentsOf(k) # <<>> =>
                IsMostCommon(SegmentsOf(k),
                             Get(analysis_result.summary.most_common_token,
                                 analysis_result.tokenizers[k].key))

\* two segments tie at the highest count and the one met first is the most
\* common token
C18_Witness ==
    /\ analysis_result.raised = "none"
    /\ \E k \in 1..Len(analysis_result.tokenizers) :
           /\ Len(SegmentsOf(k)) = 2
           /\ SegmentsOf(k)[1] # SegmentsOf(k)[2]
           /\ Get(analysis_result.summary.most_common_token,
                  analysis_result.tokenizers[k].key).key = SegmentsOf(k)[1]

\* C19: the rarest token is the segment with the lowest positive count, with
\* that count, and among the segments with that count the one whose first
\* occurrence is the latest; for a text with no token the most common and
\* the rarest token are both ("", 0).
C19_Rarest ==
    analysis_result.raised = "none" =>
        \A k \in 1..Len(analysis_result.tokenizers) :
            IF SegmentsOf(k) # <<>>
            THEN IsRarest(SegmentsOf(k),
                          Get(analysis_result.summary.rarest_token,
                              analysis_result.tokenizers[k].key))
            ELSE /\ Get(analysis_result.summary.rarest_token,
                        analysis_result.tokenizers[k].key)
                        = [key |-> <<>>, value |-> 0]
                 /\ Get(analysis_result.summary.most_common_token,
                        analysis_result.tokenizers[k].key)
                        = [key |-> <<>>, value |-> 0]

\* three different segments with one occurrence each, and the last of them
\* is the rarest token
C19_Witness ==
    /\ analysis_result.raised = "none"
    /\ \E k \in 1..Len(analysis_result.tokenizers) :
           /\ Len(SegmentsOf(k)) = 3
           /\ Cardinality(Range(SegmentsOf(k))) = 3
           /\ Get(analysis_result.summary.rarest_token,
                  analysis_result.tokenizers[k].key).key = SegmentsOf(k)[3]

\* C20: a TokenRow is never changed once it is constructed: every row of the
\* returned token_table is as TokenRow(token_index=i, tokenizer_data={}) made
\* it.
C20_RowsImmutable ==
    analysis_result.raised = "none" =>
        \A i \in 1..Len(analysis_result.analysis.token_table) :
            analysis_result.analysis.token_table[i]
                = [token_index |-> i - 1, tokenizer_data |-> <<>>]

----------------------------------------------------------------------------
(* Properties of the pool's lifetime, of the exports and of the selection *)

\* C21: the pool is populated once and reused: once the plugin is
\* initialized, every further initialize() or process_file() call loads no
\* back-end, leaves the pool's names and adapters as they are, and the
\* analysis it makes uses adapters of that pool.
C21_PoolReused ==
    [][initialized =>
          /\ initialized'
          /\ tokenizers' = tokenizers
          /\ load_outcome' = load_outcome
          /\ analysis_result'.raised # "not called" =>
                /\ analysis_result'.tokenizers # <<>>
                /\ \A k \in 1..Len(analysis_result'.tokenizers) :
                      analysis_result'.tokenizers[k] \in Range(tokenizers)]_vars

\* a pool of two loaded back-ends has served an analysis and the plugin is
\* still initialized with it
C21_Witness ==
    /\ initialized
    /\ load_outcome["tiktoken"] = "true"
    /\ load_outcome["huggingface"] = "true"
    /\ KeyList(tokenizers) = <<"tiktoken", "huggingface">>
    /\ result.op = "process_file"
    /\ result.success
    /\ analysis_result.tokenizers = tokenizers

\* the cell of a table row in this column is filled
Filled(row, column) == column \in Keys(row) /\ Get(row, column) # NaN

\* the token tables among the written files: the CSV file of the token
\* table and the sheet "Token Table" of the Excel file
TokenTablesWritten ==
    {Get(written, key).data : key \in Keys(written) \cap {<<"csv_table", "">>}}
        \cup {Get(written, key).data.token_table :
                 key \in Keys(written) \cap {<<"excel", "">>}}

\* the k-th row of a written table is the k-th TokenRow: its index, and an id
\* and a segment for the tokenizers of its tokenizer_data and no other
RowOf(row, token_row) ==
    /\ Get(row, <<"token_index", "">>) = <<token_row.token_index>>
    /\ \A e \in Range(token_row.tokenizer_data) :
          /\ <<e.key, "id">> \in Keys(row)
          /\ <<e.key, "str">> \in Keys(row)
          /\ Get(row, <<e.key, "id">>) = <<e.value.id>>
          /\ Get(row, <<e.key, "str">>) = <<e.value.str>>
    /\ \A column \in Keys(row) :
          Filled(row, column) =>
              \/ column = <<"token_index", "">>
              \/ /\ column[1] \in Keys(token_row.tokenizer_data)
                 /\ column[2] \in {"id", "str"}

\* C22: a written tabular export of an analysis has one row per TokenRow of
\* token_table, in the table's order, which is the order of token_index;
\* each row carries the index and an id and a segment for exactly the
\* tokenizers with an entry at that index.
C22_TabularExport ==
    analysis_result.raised = "none" =>
        \A table \in TokenTablesWritten :
            /\ Len(table) = Len(analysis_result.analysis.token_table)
            /\ \A k \in 1..Len(table) :
                  /\ analysis_result.analysis.token_table[k].token_index = k - 1
                  /\ RowOf(table[k], analysis_result.analysis.token_table[k])

\* a CSV token table of three rows was written, the third with a token of
\* tiktoken only and an empty huggingface cell
C22_Witness ==
    /\ analysis_result.raised = "none"
    /\ KeyList(analysis_result.tokenizers) = <<"tiktoken", "huggingface">>
    /\ <<"csv_table", "">> \in Keys(written)
    /\ Len(Get(written, <<"csv_table", "">>).data) = 3
    /\ Filled(Get(written, <<"csv_table", "">>).data[3], <<"tiktoken", "id">>)
    /\ ~Filled(Get(written, <<"csv_table", "">>).data[3], <<"huggingface", "id">>)
    /\ Filled(Get(written, <<"csv_table", "">>).data[1], <<"huggingface", "str">>)

\* the frequency files export_results is to write for the last request, left
\* aside those whose write the file system refuses; the Excel file stands
\* for the frequency sheets it holds
FrequencyFilesDue ==
    {key \in Range(ExportKeys(KeyList(analysis_result.frequencies),
                              request.out.output_format)) :
        /\ key[1] \in {"json_freq", "csv_freq", "excel"}
        /\ key \notin request.out.failing}

\* the rows of the written frequency export of the k-th tokenizer in the
\* file with this key: the rows of the CSV file, the entries of the JSON
\* object's frequencies, the rows of the tokenizer's Excel sheet
FrequencyExport(key, k) ==
    IF key[1] = "csv_freq" THEN Get(written, key).data
    ELSE IF key[1] = "json_freq"
    THEN FrequencyRows(Get(written, key).data.frequencies)
    ELSE Get(Get(written, key).data.frequencies,
             SheetNames[analysis_result.tokenizers[k].key])

\* rows of {token, count}, one per distinct segment of strs with its count,
\* by descending count
IsFrequencyExport(rows, strs) ==
    /\ Len(rows) = Cardinality(Range(strs))
    /\ {rows[i].token : i \in 1..Len(rows)} = Range(strs)
    /\ \A i \in 1..Len(rows) : rows[i].count = Occurrences(strs, rows[i].token)
    /\ \A i \in 1..Len(rows) : \A j \in i..Len(rows) : rows[i].count >= rows[j].count

\* C23: every frequency export of every tokenizer of the analysis, in each
\* format export_results writes, also for a tokenizer without tokens, is
\* there and holds rows of {token, count}, one per distinct segment, sorted
\* by descending count.
C23_FrequencyExports ==
    (analysis_result.raised = "none" /\ ~request.out.no_dir) =>
        \A key \in FrequencyFilesDue :
            \A k \in 1..Len(analysis_result.tokenizers) :
                (key[1] = "excel" \/ key[2] = analysis_result.tokenizers[k].key) =>
                    /\ key \in Keys(written)
                    /\ IsFrequencyExport(FrequencyExport(key, k), SegmentsOf(k))

\* a is a strict prefix of b
StrictPrefix(a, b) == Len(a) < Len(b) /\ a = SubSeq(b, 1, Len(a))

\* C25: without the edit-distance library, the similarity of a non-empty
\* original is the number of positions below the shorter length at which the
\* two strings agree, divided by the longer length; a reconstruction that is
\* a strict prefix or a strict extension of the original scores below 1.0.
C25_PositionalFallback ==
    (ret.op = "calculate_similarity" /\ ~USE_LEVENSHTEIN /\ ret.arg[1] # <<>>) =>
        /\ ret.out[2] > 0
        /\ ret.out[1] * Max(Len(ret.arg[1]), Len(ret.arg[2])) =
              ret.out[2] * SumSeq([i \in 1..Min(Len(ret.arg[1]), Len(ret.arg[2])) |->
                                      IF ret.arg[1][i] = ret.arg[2][i] THEN 1 ELSE 0])
        /\ (StrictPrefix(ret.arg[2], ret.arg[1]) \/ StrictPrefix(ret.arg[1], ret.arg[2]))
              => ret.out[1] < ret.out[2]

\* the positional metric compared a text of three code points with its
\* prefix of two: 2/3
C25_Witness ==
    /\ ret.op = "calculate_similarity"
    /\ ~USE_LEVENSHTEIN
    /\ Len(ret.arg[1]) = 3
    /\ StrictPrefix(ret.arg[2], ret.arg[1])
    /\ Len(ret.arg[2]) = 2
    /\ ret.out = <<2, 3>>

\* the names of the tokenizers handed to the last _analyze_file call
Selected == KeyList(analysis_result.tokenizers)

\* s lists its elements in the order in which the sequence t has them
InOrderOf(s, t) ==
    \A i \in 1..Len(s) : \A j \in (i + 1)..Len(s) :
        \E m \in 1..Len(t) : \E n \in (m + 1)..Len(t) : t[m] = s[i] /\ t[n] = s[j]

\* C26: _process_local_file analyses the pool's adapters whose names are in
\* the tokenizers option, or the whole pool when the option is absent or
\* names no adapter of the pool; they are the pool's own instances, in pool
\* order whatever the order of the option, tokenizers_used lists them so,
\* and a name that is not in the pool changes nothing else.
C26_Selection ==
    analysis_result.raised # "not called" =>
        /\ Range(Selected) =
              IF Range(request.tokenizers) \cap Keys(tokenizers) # {}
              THEN Range(request.tokenizers) \cap Keys(tokenizers)
              ELSE Keys(tokenizers)
        /\ Len(Selected) = Cardinality(Range(Selected))
        /\ InOrderOf(Selected, KeyList(tokenizers))
        /\ \A e \in Range(analysis_result.tokenizers) : e \in Range(tokenizers)
        /\ analysis_result.raised = "none" /\ ~request.out.no_dir =>
              /\ result.success
              /\ result.content.tokenizers_used = Selected
              /\ analysis_result.summary.tokenizers_used = Selected

\* the caller named huggingface before tiktoken and a pool holding tiktoken
\* before huggingface served the request
C26_Witness ==
    /\ request.tokenizers = <<"huggingface", "tiktoken">>
    /\ KeyList(tokenizers) = <<"tiktoken", "huggingface">>
    /\ result.success
    /\ result.content.tokenizers_used = <<"tiktoken", "huggingface">>

\* the files of the format the last request asks for
RequestedFiles ==
    (IF request.out.output_format \in {"excel", "all"}
     THEN {<<"excel", "">>} ELSE {})
    \cup (IF request.out.output_format \in {"json", "all"}
          THEN {<<"json_analysis", "">>, <<"json_summary", "">>}
               \cup {<<"json_freq", n>> : n \in Keys(analysis_result.frequencies)}
          ELSE {})
    \cup (IF request.out.output_format \in {"csv", "all"}
          THEN {<<"csv_table", "">>}
               \cup {<<"csv_freq", n>> : n \in Keys(analysis_result.frequencies)}
          ELSE {})

----------------------------------------------------------------------------
(* Properties of the plugin host's lock file *)

\* the process p is past the instance check of an initialize() and has not
\* ended
Passed(p) ==
    /\ procs[p].pc \notin {"del_exists", "del_read", "del_unlink", "exited"}
    /\ procs[p].pc = "init" \/ procs[p].made > 0

\* C24: the lock file gives single-instance execution: of two processes
\* that call initialize() within the time a lock stays recent, whatever the
\* interleaving of their check and write steps, at most one passes the
\* instance check and initialises.
C24_SingleInstance ==
    now = 0 => Cardinality({p \in Pids : Passed(p)}) <= 1

\* C29: a finalised plugin removes the lock file only when the file records
\* its own process's PID: no process ever removes a lock file that records
\* another process's PID, whatever the interleaving.
C29_OwnerOnlyRelease ==
    \A p \in Pids : procs[p].unlinked \in {<<>>, Str(p)}

\* C27: the instance check does not look at whose lock it is.  A call that
\* finds a lock file younger than 600 seconds goes on to return the error,
\* leaves the lock file as it is and makes no TokenScopePlugin, whatever PID
\* the file records; a call that finds a lock of 600 seconds or more writes
\* its own PID to the file and goes on to make the TokenScopePlugin.
C27_InstanceCheck ==
    [][\A p \in Pids :
          /\ (/\ procs[p].pc = "stat" /\ procs'[p].pc # "stat"
              /\ lock.exists /\ now - lock.mtime < LOCK_SECONDS)
                => procs'[p].pc = "read" /\ lock' = lock
          /\ (procs[p].pc = "read" /\ procs'[p].pc # "read")
                => /\ procs'[p].pc = "idle"
                   /\ procs'[p].result = "another instance"
                   /\ lock' = lock
                   /\ procs'[p].made = procs[p].made
                   /\ procs'[p].token_scope_plugin = procs[p].token_scope_plugin
                   /\ procs'[p].initialized = procs[p].initialized
          /\ (/\ procs[p].pc = "stat" /\ procs'[p].pc # "stat"
              /\ lock.exists /\ now - lock.mtime >= LOCK_SECONDS)
                => procs'[p].pc = "write"
          /\ (procs[p].pc = "write" /\ procs'[p].pc # "write")
                => /\ procs'[p].pc = "init"
                   /\ lock' = [exists |-> TRUE, pid |-> Str(p), mtime |-> now]
          /\ (procs[p].pc = "init" /\ procs'[p].pc # "init")
                => /\ procs'[p].made = procs[p].made + 1
                   /\ procs'[p].token_scope_plugin = procs'[p].made]_vars

\* a process that holds the lock called initialize() again within 600
\* seconds and was refused on its own lock; no other process has done
\* anything
C27_Witness ==
    \E p \in Pids :
        /\ procs[p].pc = "idle"
        /\ procs[p].result = "another instance"
        /\ procs[p].made = 1
        /\ procs[p].calls = 2
        /\ lock.exists
        /\ lock.pid = Str(p)
        /\ now - lock.mtime < LOCK_SECONDS
        /\ \A q \in Pids \ {p} : procs[q] = NoProcess

\* C28: create_plugin() is a singleton factory that resets initialisation:
\* every call returns the one object of the process, with _initialized
\* False also when the object had been initialized, so the process_file()
\* that follows a create_plugin() runs initialize() and its lock-file check.
C28_CreatePluginResets ==
    [][\A p \in Pids :
          /\ (/\ procs[p].pc = "idle" /\ procs'[p].pc = "idle"
              /\ procs'[p] # procs[p])
                => /\ procs'[p].last = "create_plugin"
                   /\ ~procs'[p].initialized
                   /\ procs'[p].plugin # 0
                   /\ procs'[p].plugin = procs'[p].instance
                   /\ procs'[p].plugin = procs'[p].registry
                   /\ procs'[p].objects = 1
                   /\ procs[p].plugin # 0 => procs'[p].plugin = procs[p].plugin
          /\ (/\ procs[p].last = "create_plugin" /\ procs[p].op = "none"
              /\ procs'[p].op = "process_file")
                => procs'[p].pc = "exists"]_vars

\* create_plugin() returned the object that an initialize() had initialized,
\* now not initialized and still with its TokenScopePlugin
C28_Witness ==
    \E p \in Pids :
        /\ procs[p].last = "create_plugin"
        /\ procs[p].pc = "idle"
        /\ procs[p].result = "initialized"
        /\ ~procs[p].initialized
        /\ procs[p].token_scope_plugin = 1
        /\ procs[p].plugin = 1

====
